---- MODULE Spec2Model ----
(***************************************************************************)
(* Model of rpi-pwrbtn.c: an AVR supervisor that sequences the power of a  *)
(* Raspberry Pi from a push button.                                        *)
(*                                                                         *)
(* Two contexts run the code: the main line (setup, then loop forever)     *)
(* and the pin-change interrupt handler ISR(PCINT0_vect), which preempts   *)
(* the main line between any two of its memory accesses and is itself not  *)
(* preemptible.  The main line is modelled one memory or port access per   *)
(* step; the handler one read of PINB per step.                            *)
(*                                                                         *)
(* PORTB is modelled as the set of output pins driven high, PINB as the    *)
(* set of monitored input pins that read high (the handler tests no other  *)
(* bit of PINB or of its snapshot).  RPI_PWR is active low in the code:    *)
(* setup and the power-off entry action drive it high, the boot entry      *)
(* action drives it low.  RPI_OUT high asks the host to shut down.         *)
(*                                                                         *)
(* data is not volatile and is shared with the handler.  What every build  *)
(* does is modelled as it is: ++data.seconds is a load and a store with    *)
(* the handler possibly in between.  Where builds differ (the switch of    *)
(* state_change on the value just stored) the model takes either outcome.  *)
(* HIGH and LOW of one constant bit of PORTB are single sbi/cbi            *)
(* instructions; the handler writes no output while a tick function runs,  *)
(* so TOGGLE is one step.                                                  *)
(*                                                                         *)
(* A pending interrupt may be taken after any number of main-line steps:   *)
(* the handler then sees what it would see had the line changed later.     *)
(* The lines may change between any two reads of PINB by the handler.      *)
(***************************************************************************)
EXTENDS Integers, Sequences, FiniteSets, TLC

\* ---------------------------------------------------------------- constants
BTN == 2
LED == 1
RPI_PWR == 0
RPI_IN == 3
RPI_OUT == 4

BOOT_TIMEOUT == 40
SHUTDOWN_TIMEOUT == 40
BOOT_TICK == 200
SHUTDOWN_TICK == 500
SECOND == 1000

unknown_state == "unknown_state"
boot_state == "boot_state"
idle_state == "idle_state"
shutdown_state == "shutdown_state"
poweroff_state == "poweroff_state"

state_t == {unknown_state, boot_state, idle_state, shutdown_state, poweroff_state}

\* the two input lines enabled in PCMSK
Monitored == {BTN, RPI_IN}

Xor(a, b) == (a \ b) \cup (b \ a)

VARIABLES
  state,       \* data.state
  timer,       \* data.timer   (uint16_t, milliseconds below one second)
  seconds,     \* data.seconds (uint8_t)
  pinb,        \* data.pinb    (snapshot of the monitored bits of PINB)
  portb,       \* PORTB: the output pins driven high
  pins,        \* PINB: the monitored input lines that are high right now
  pcif,        \* pin-change interrupt flag (an interrupt is pending)
  ie,          \* global interrupt enable (cli / sei)
  fn,          \* function the main line is executing
  pc,          \* position of the main line inside fn or state_change
  new_state,   \* state_change's argument, then its switch selector
  idx,         \* next statement of the entry action being executed
  reg,         \* register holding data.seconds between load and store
  asleep,      \* the CPU is halted in sleep_mode()
  ipc,         \* position of the interrupt handler ("none": not running)
  pin_change,  \* the handler's local pin_change
  ticks,       \* history: tick iterations begun since the last state change
  forced,      \* history: the handler forced the boot timeout and no
               \*          entry action has reset the clock since
  tickSince    \* history: a boot tick has begun after the timeout was forced

vars == <<state, timer, seconds, pinb, portb, pins, pcif, ie, fn, pc,
          new_state, idx, reg, asleep, ipc, pin_change, ticks, forced,
          tickSince>>

data == <<state, timer, seconds>>
hist == <<ticks, forced, tickSince>>
isrv == <<ipc, pin_change>>
mainv == <<fn, pc, new_state, idx, reg>>

\* ------------------------------------------------------------- state_change
\* slip: the boot case does not switch the host power on
EntryOps_BootNoPower(s) ==
  CASE s = boot_state ->
         << <<"LOW", LED>>, <<"LOW", RPI_OUT>>,
            <<"TIMER", 0>>, <<"SECONDS", 0>> >>
    [] s = shutdown_state ->
         << <<"HIGH", RPI_OUT>>, <<"LOW", LED>>,
            <<"TIMER", 0>>, <<"SECONDS", 0>> >>
    [] s = poweroff_state ->
         << <<"HIGH", RPI_PWR>>, <<"LOW", LED>>, <<"LOW", RPI_OUT>> >>
    [] s = idle_state ->
         << <<"HIGH", LED>> >>
    [] OTHER -> << >>

\* slip: the power-off case leaves the shutdown request asserted
EntryOps_PowerOffKeepsRequest(s) ==
  CASE s = boot_state ->
         << <<"LOW", LED>>, <<"LOW", RPI_PWR>>, <<"LOW", RPI_OUT>>,
            <<"TIMER", 0>>, <<"SECONDS", 0>> >>
    [] s = shutdown_state ->
         << <<"HIGH", RPI_OUT>>, <<"LOW", LED>>,
            <<"TIMER", 0>>, <<"SECONDS", 0>> >>
    [] s = poweroff_state ->
         << <<"HIGH", RPI_PWR>>, <<"LOW", LED>> >>
    [] s = idle_state ->
         << <<"HIGH", LED>> >>
    [] OTHER -> << >>

\* slip: the power-off case resets the clock as the timed states do
EntryOps_PowerOffResetsClock(s) ==
  CASE s = boot_state ->
         << <<"LOW", LED>>, <<"LOW", RPI_PWR>>, <<"LOW", RPI_OUT>>,
            <<"TIMER", 0>>, <<"SECONDS", 0>> >>
    [] s = shutdown_state ->
         << <<"HIGH", RPI_OUT>>, <<"LOW", LED>>,
            <<"TIMER", 0>>, <<"SECONDS", 0>> >>
    [] s = poweroff_state ->
         << <<"HIGH", RPI_PWR>>, <<"LOW", LED>>, <<"LOW", RPI_OUT>>,
            <<"TIMER", 0>>, <<"SECONDS", 0>> >>
    [] s = idle_state ->
         << <<"HIGH", LED>> >>
    [] OTHER -> << >>

\* slip: the shutdown case does not reset the clock
EntryOps_ShutdownKeepsClock(s) ==
  CASE s = boot_state ->
         << <<"LOW", LED>>, <<"LOW", RPI_PWR>>, <<"LOW", RPI_OUT>>,
            <<"TIMER", 0>>, <<"SECONDS", 0>> >>
    [] s = shutdown_state ->
         << <<"HIGH", RPI_OUT>>, <<"LOW", LED>> >>
    [] s = poweroff_state ->
         << <<"HIGH", RPI_PWR>>, <<"LOW", LED>>, <<"LOW", RPI_OUT>> >>
    [] s = idle_state ->
         << <<"HIGH", LED>> >>
    [] OTHER -> << >>

\* the statements of each case of state_change's switch, in program order
EntryOps(s) ==
  CASE s = boot_state ->
         << <<"LOW", LED>>, <<"LOW", RPI_PWR>>, <<"LOW", RPI_OUT>>,
            <<"TIMER", 0>>, <<"SECONDS", 0>> >>
    [] s = shutdown_state ->
         << <<"HIGH", RPI_OUT>>, <<"LOW", LED>>,
            <<"TIMER", 0>>, <<"SECONDS", 0>> >>
    [] s = poweroff_state ->
         << <<"HIGH", RPI_PWR>>, <<"LOW", LED>>, <<"LOW", RPI_OUT>> >>
    [] s = idle_state ->
         << <<"HIGH", LED>> >>
    [] OTHER -> << >>

\* one statement of an entry action applied to m = [portb, timer, seconds]
ApplyOp(op, m) ==
  CASE op[1] = "HIGH" -> [m EXCEPT !.portb = @ \cup {op[2]}]
    [] op[1] = "LOW" -> [m EXCEPT !.portb = @ \ {op[2]}]
    [] op[1] = "TIMER" -> [m EXCEPT !.timer = op[2]]
    [] op[1] = "SECONDS" -> [m EXCEPT !.seconds = op[2]]

RECURSIVE RunOps(_, _)
RunOps(ops, m) ==
  IF ops = << >> THEN m ELSE RunOps(Tail(ops), ApplyOp(Head(ops), m))

Mem == [portb |-> portb, timer |-> timer, seconds |-> seconds]

\* state_change(s) executed without preemption (as the handler executes it)
StateChange(s) ==
  LET m == RunOps(EntryOps(s), Mem) IN
  /\ state' = s
  /\ portb' = m.portb
  /\ timer' = m.timer
  /\ seconds' = m.seconds
  /\ ticks' = 0
  /\ forced' = FALSE
  /\ tickSince' = FALSE

\* --------------------------------------------------------------- main line
\* main() is not part of the source file: it calls setup() once and then
\* loop() forever, so every return of the main line leads to a call of loop
AfterReturn(f) == "dispatch"

MainRuns == ipc = "none" /\ ~asleep

\* setup, lines 171-221: executed with interrupts disabled
SetupInit ==
  /\ MainRuns /\ fn = "setup" /\ pc = "init"
  /\ portb' = {RPI_PWR}
  /\ state' = unknown_state
  /\ timer' = 0
  /\ seconds' = 0
  /\ pinb' = pins
  /\ ie' = FALSE
  /\ pc' = "sei"
  /\ UNCHANGED <<pins, pcif, fn, new_state, idx, reg, asleep, isrv, hist>>

\* slip: setup returns without the transition to poweroff_state
SetupSei_NoTransition ==
  /\ MainRuns /\ fn = "setup" /\ pc = "sei"
  /\ ie' = TRUE
  /\ pc' = AfterReturn(fn)
  /\ fn' = "loop"
  /\ UNCHANGED <<data, pinb, portb, pins, pcif, new_state, idx, reg, asleep,
                 isrv, hist>>

\* setup, lines 224-226: sei(), then the call state_change(poweroff_state)
SetupSei ==
  /\ MainRuns /\ fn = "setup" /\ pc = "sei"
  /\ ie' = TRUE
  /\ new_state' = poweroff_state
  /\ pc' = "sc_assign"
  /\ UNCHANGED <<data, pinb, portb, pins, pcif, fn, idx, reg, asleep, isrv,
                 hist>>

\* state_change, line 134: data.state = new_state
SC_Assign ==
  /\ MainRuns /\ pc = "sc_assign"
  /\ state' = new_state
  /\ ticks' = 0 /\ forced' = FALSE /\ tickSince' = FALSE
  /\ pc' = "sc_switch"
  /\ UNCHANGED <<timer, seconds, pinb, portb, pins, pcif, ie, fn, new_state,
                 idx, reg, asleep, isrv>>

\* state_change, line 136: switch(data.state).  data is not volatile: the
\* build either reuses the value just stored or loads data.state again
SC_Switch ==
  /\ MainRuns /\ pc = "sc_switch"
  /\ \E v \in {new_state, state} :
       /\ new_state' = v
       /\ IF EntryOps(v) = << >>
            THEN /\ pc' = AfterReturn(fn) /\ fn' = "loop" /\ idx' = 0
            ELSE /\ pc' = "sc_entry" /\ fn' = fn /\ idx' = 1
  /\ UNCHANGED <<data, pinb, portb, pins, pcif, ie, reg, asleep, isrv, hist>>

\* state_change, lines 137-163: one statement of the selected case
SC_Entry ==
  /\ MainRuns /\ pc = "sc_entry"
  /\ LET ops == EntryOps(new_state)
         m == ApplyOp(ops[idx], Mem)
     IN /\ portb' = m.portb
        /\ timer' = m.timer
        /\ seconds' = m.seconds
        /\ IF idx = Len(ops)
             THEN /\ pc' = AfterReturn(fn) /\ fn' = "loop" /\ idx' = 0
             ELSE /\ pc' = pc /\ fn' = fn /\ idx' = idx + 1
        /\ forced' = (forced /\ ops[idx][1] # "SECONDS")
        /\ tickSince' = (tickSince /\ ops[idx][1] # "SECONDS")
  /\ UNCHANGED <<state, pinb, pins, pcif, ie, new_state, reg, asleep, isrv,
                 ticks>>

\* loop, lines 232-250: the function each state dispatches to
Dispatch(s) ==
  CASE s = boot_state -> <<"boot_tick", "toggle">>
    [] s = shutdown_state -> <<"shutdown_tick", "toggle">>
    [] s \in {idle_state, poweroff_state} -> <<"loop", "sleep">>
    [] OTHER -> <<"bork_tick", "toggle">>

Loop ==
  /\ MainRuns /\ fn = "loop" /\ pc = "dispatch"
  /\ fn' = Dispatch(state)[1]
  /\ pc' = Dispatch(state)[2]
  /\ UNCHANGED <<data, pinb, portb, pins, pcif, ie, new_state, idx, reg,
                 asleep, isrv, hist>>

\* sleep_mode(), line 243: the CPU halts until an interrupt is taken
Sleep ==
  /\ MainRuns /\ fn = "loop" /\ pc = "sleep"
  /\ asleep' = TRUE
  /\ pc' = "wake"
  /\ UNCHANGED <<data, pinb, portb, pins, pcif, ie, fn, new_state, idx, reg,
                 isrv, hist>>

Wake ==
  /\ MainRuns /\ fn = "loop" /\ pc = "wake"
  /\ pc' = AfterReturn(fn)
  /\ UNCHANGED <<data, pinb, portb, pins, pcif, ie, fn, new_state, idx, reg,
                 asleep, isrv, hist>>

\* per tick function: blink period, timeout and state entered on timeout
Period(f) == IF f = "boot_tick" THEN BOOT_TICK ELSE SHUTDOWN_TICK
Timeout(f) == IF f = "boot_tick" THEN BOOT_TIMEOUT ELSE SHUTDOWN_TIMEOUT
\* slip: the two tick functions enter each other's state
Target_Swapped(f) == IF f = "boot_tick" THEN poweroff_state ELSE idle_state

Target(f) == IF f = "boot_tick" THEN idle_state ELSE poweroff_state

\* slip: the comparison of the timeout test is reversed
TimedOut_Inverted(sec, limit) == sec <= limit

TimedOut(sec, limit) == sec >= limit

\* TOGGLE(PORTB, LED) of boot_tick (78), shutdown_tick (89), bork_tick
\* (100, 102; its two DELAYs change nothing)
Toggle ==
  /\ MainRuns /\ pc \in {"toggle", "toggle2"}
  /\ fn \in {"boot_tick", "shutdown_tick", "bork_tick"}
  /\ portb' = Xor(portb, {LED})
  /\ IF fn = "bork_tick"
       THEN /\ UNCHANGED hist
            /\ IF pc = "toggle"
                 THEN pc' = "toggle2" /\ fn' = fn
                 ELSE pc' = AfterReturn(fn) /\ fn' = "loop"
       ELSE /\ ticks' = ticks + 1
            /\ tickSince' = (forced /\ fn = "boot_tick")
            /\ forced' = forced
            /\ pc' = "delay" /\ fn' = fn
  /\ UNCHANGED <<data, pinb, pins, pcif, ie, new_state, idx, reg, asleep,
                 isrv>>

\* delay(msecs), lines 110-128, up to the test of data.timer
Delay ==
  /\ MainRuns /\ pc = "delay"
  /\ IF state \in {boot_state, shutdown_state}
       THEN /\ timer' = (timer + Period(fn)) % 65536
            /\ pc' = IF timer' >= SECOND THEN "load" ELSE "check"
       ELSE /\ timer' = timer
            /\ pc' = "check"
  /\ UNCHANGED <<state, seconds, pinb, portb, pins, pcif, ie, fn, new_state,
                 idx, reg, asleep, isrv, hist>>

\* delay, line 119: ++data.seconds is a load, an increment and a store
Load ==
  /\ MainRuns /\ pc = "load"
  /\ reg' = seconds
  /\ pc' = "store"
  /\ UNCHANGED <<data, pinb, portb, pins, pcif, ie, fn, new_state, idx,
                 asleep, isrv, hist>>

\* slip: the carry leaves data.timer as it is
Store_KeepsTimer ==
  /\ MainRuns /\ pc = "store"
  /\ seconds' = (reg + 1) % 256
  /\ reg' = 0
  /\ pc' = "check"
  /\ UNCHANGED <<state, timer, pinb, portb, pins, pcif, ie, fn, new_state,
                 idx, asleep, isrv, hist>>

\* delay, lines 119-120: the store of ++data.seconds, data.timer -= SECOND
Store ==
  /\ MainRuns /\ pc = "store"
  /\ seconds' = (reg + 1) % 256
  /\ timer' = (timer - SECOND) % 65536
  /\ reg' = 0
  /\ pc' = "check"
  /\ UNCHANGED <<state, pinb, portb, pins, pcif, ie, fn, new_state, idx,
                 asleep, isrv, hist>>

\* boot_tick, lines 81-82, and shutdown_tick, lines 92-93
Check ==
  /\ MainRuns /\ pc = "check"
  /\ IF TimedOut(seconds, Timeout(fn))
       THEN /\ new_state' = Target(fn)
            /\ pc' = "sc_assign"
            /\ fn' = fn
       ELSE /\ new_state' = new_state
            /\ pc' = AfterReturn(fn)
            /\ fn' = "loop"
  /\ UNCHANGED <<data, pinb, portb, pins, pcif, ie, idx, reg, asleep, isrv,
                 hist>>

\* ------------------------------------------------------- interrupt handler
\* slip: any change of the line counts, the level is not tested
RisingEdge_AnyEdge(change, now, bit) == bit \in change

\* lines 261 and 275: the line changed and is high now
RisingEdge(change, now, bit) == bit \in change /\ bit \in now

\* slip: the timeout is forced without a test of the state
HostForce_AnyState(s, sec) == BOOT_TIMEOUT

\* lines 262-273: data.seconds after a host-ready rising edge
HostForce(s, sec) == IF s = boot_state THEN BOOT_TIMEOUT ELSE sec

\* slip: a press during shutdown cuts the power at once
ButtonTarget_ForceOff(s) ==
  CASE s = idle_state -> shutdown_state
    [] s = poweroff_state -> boot_state
    [] s = shutdown_state -> poweroff_state
    [] OTHER -> s

\* lines 276-289: the state a button press leads to (s itself: no call)
ButtonTarget(s) ==
  CASE s = idle_state -> shutdown_state
    [] s = poweroff_state -> boot_state
    [] OTHER -> s

\* the hardware takes the pending interrupt: PCIF and the I flag are
\* cleared, a sleeping CPU wakes up
ISR_Enter ==
  /\ ie /\ pcif /\ ipc = "none"
  /\ ipc' = "read"
  /\ pcif' = FALSE
  /\ asleep' = FALSE
  /\ UNCHANGED <<data, pinb, portb, pins, ie, mainv, pin_change, hist>>

\* line 258: pin_change = PINB ^ data.pinb
ISR_Read ==
  /\ ipc = "read"
  /\ pin_change' = Xor(pins, pinb)
  /\ ipc' = "snap"
  /\ UNCHANGED <<data, pinb, portb, pins, pcif, ie, mainv, asleep, hist>>

\* line 259: data.pinb = PINB
ISR_Snap ==
  /\ ipc = "snap"
  /\ pinb' = pins
  /\ ipc' = "host"
  /\ UNCHANGED <<data, portb, pins, pcif, ie, mainv, asleep, pin_change,
                 hist>>

\* lines 261-273
ISR_Host ==
  /\ ipc = "host"
  /\ IF RisingEdge(pin_change, pins, RPI_IN)
       THEN /\ seconds' = HostForce(state, seconds)
            /\ forced' = (forced \/ state = boot_state)
       ELSE UNCHANGED <<seconds, forced>>
  /\ ipc' = "btn"
  /\ UNCHANGED <<state, timer, pinb, portb, pins, pcif, ie, mainv, asleep,
                 pin_change, ticks, tickSince>>

\* lines 275-289, and the return from the handler
ISR_Btn ==
  /\ ipc = "btn"
  /\ IF RisingEdge(pin_change, pins, BTN) /\ ButtonTarget(state) # state
       THEN StateChange(ButtonTarget(state))
       ELSE UNCHANGED <<data, portb, hist>>
  /\ ipc' = "none"
  /\ pin_change' = {}
  /\ UNCHANGED <<pinb, pins, pcif, ie, mainv, asleep>>

\* ------------------------------------------------------------- environment
\* the button or the host-ready line changes level; once setup has set
\* GIMSK and PCMSK the change raises the pin-change interrupt flag
PinChange ==
  /\ \E b \in Monitored : pins' = Xor(pins, {b})
  /\ pcif' = (pcif \/ ~(fn = "setup" /\ pc = "init"))
  /\ UNCHANGED <<data, pinb, portb, ie, mainv, asleep, isrv, hist>>

\* ----------------------------------------------------------- specification
\* the state after reset: .bss and the I/O registers are zero, interrupts
\* are disabled, the input lines are at any level
Init ==
  /\ state = unknown_state
  /\ timer = 0
  /\ seconds = 0
  /\ pinb = {}
  /\ portb = {}
  /\ pins \in SUBSET Monitored
  /\ pcif = FALSE
  /\ ie = FALSE
  /\ fn = "setup"
  /\ pc = "init"
  /\ new_state = unknown_state
  /\ idx = 0
  /\ reg = 0
  /\ asleep = FALSE
  /\ ipc = "none"
  /\ pin_change = {}
  /\ ticks = 0
  /\ forced = FALSE
  /\ tickSince = FALSE

Next ==
  \/ SetupInit
  \/ SetupSei
  \/ SC_Assign
  \/ SC_Switch
  \/ SC_Entry
  \/ Loop
  \/ Sleep
  \/ Wake
  \/ Toggle
  \/ Delay
  \/ Load
  \/ Store
  \/ Check
  \/ ISR_Enter
  \/ ISR_Read
  \/ ISR_Snap
  \/ ISR_Host
  \/ ISR_Btn
  \/ PinChange

Spec == Init /\ [][Next]_vars

TypeOK ==
  /\ state \in state_t
  /\ timer \in 0..65535
  /\ seconds \in 0..255
  /\ pinb \subseteq Monitored
  /\ portb \subseteq {LED, RPI_PWR, RPI_OUT}
  /\ pins \subseteq Monitored
  /\ ipc \in {"none", "read", "snap", "host", "btn"}

\* ------------------------------------------------------------------ claims
PowerOn == RPI_PWR \notin portb
RequestAsserted == RPI_OUT \in portb

\* tick iterations that make up each timeout
BootTicks == (BOOT_TIMEOUT * SECOND) \div BOOT_TICK
ShutdownTicks == (SHUTDOWN_TIMEOUT * SECOND) \div SHUTDOWN_TICK

\* C1: when setup returns, state is PoweredOff, whatever the input lines do
\* once setup has enabled interrupts.
C1_SetupYieldsPowerOff ==
  [][fn = "setup" /\ fn' # "setup" => state' = poweroff_state]_vars

\* C2: once setup has completed, state is never Unknown and the error-blink
\* tick is never executed.
C2_NeverUnknownAfterSetup ==
  fn # "setup" => (state # unknown_state /\ fn # "bork_tick")

\* a host-ready edge is handled during a boot tick that a button press began
C2_Witness == fn = "boot_tick" /\ forced /\ state = boot_state

\* C3: the handler's button test, run with state PoweredOff on a rising edge
\* of the button, returns with state Booting, power on, the shutdown request
\* deasserted and both counters zero.
C3_ButtonFromPowerOff ==
  [][(/\ ipc = "btn" /\ ipc' = "none"
      /\ state = poweroff_state
      /\ BTN \in pin_change /\ BTN \in pins)
     => (/\ state' = boot_state
         /\ RPI_PWR \notin portb'
         /\ RPI_OUT \notin portb'
         /\ timer' = 0
         /\ seconds' = 0)]_vars

\* the handler woke the main line from its PoweredOff sleep and left Booting
C3_Witness ==
  /\ state = boot_state /\ ticks = 0 /\ ipc = "none"
  /\ fn = "loop" /\ pc = "wake" /\ ~asleep
  /\ PowerOn /\ ~RequestAsserted /\ timer = 0 /\ seconds = 0

\* C4: the handler's button test, run with state Idle on a rising edge of
\* the button, returns with state ShuttingDown, the shutdown request
\* asserted, power still on and both counters zero.
C4_ButtonFromIdle ==
  [][(/\ ipc = "btn" /\ ipc' = "none"
      /\ state = idle_state
      /\ BTN \in pin_change /\ BTN \in pins)
     => (/\ state' = shutdown_state
         /\ RPI_OUT \in portb'
         /\ RPI_PWR \notin portb'
         /\ timer' = 0
         /\ seconds' = 0)]_vars

\* C5: a rising edge of the button handled in Booting, ShuttingDown or
\* Unknown changes neither the state nor the counters nor any output.
C5_ButtonIgnored ==
  [][(/\ ipc = "btn" /\ ipc' = "none"
      /\ state \in {boot_state, shutdown_state, unknown_state}
      /\ BTN \in pin_change /\ BTN \in pins)
     => UNCHANGED <<state, seconds, timer, portb>>]_vars

\* the handler is at its button test, inside a shutdown tick, with a press
C5_Witness ==
  /\ ipc = "btn" /\ state = shutdown_state
  /\ BTN \in pin_change /\ BTN \in pins
  /\ fn = "shutdown_tick" /\ ticks > 0

\* C6: a step of the handler that sees no rising edge (the line it tests
\* did not change, or changed and is low) changes neither the state nor
\* the counters nor any output; the handler only stores the pin levels in
\* the snapshot.
C6_NonRisingNoEffect ==
  [][(/\ ipc' # ipc
      /\ (ipc = "host" => ~(RPI_IN \in pin_change /\ RPI_IN \in pins))
      /\ (ipc = "btn" => ~(BTN \in pin_change /\ BTN \in pins)))
     => (/\ UNCHANGED <<state, seconds, timer, portb>>
         /\ (ipc = "snap" => pinb' = pins))]_vars

\* the handler is at its button test in Idle with a falling edge
C6_Witness ==
  /\ ipc = "btn" /\ state = idle_state
  /\ BTN \in pin_change /\ BTN \notin pins /\ BTN \notin pinb

\* C7 (as amended): with no host-ready edge, state leaves Booting only in
\* the 200th boot tick, which enters Idle with elapsed_seconds >= 40; no
\* 201st boot tick begins.
C7_BootTimeout ==
  /\ [][(state = boot_state /\ state' # boot_state /\ ~forced)
        => (/\ fn = "boot_tick" /\ ticks = BootTicks
            /\ state' = idle_state
            /\ seconds >= BOOT_TIMEOUT)]_vars
  /\ [](state = boot_state /\ ~forced
        => (ticks <= BootTicks /\ (ticks = BootTicks => fn = "boot_tick")))

\* C7 (as claimed): the 40th boot tick enters Idle.
C7_BootTimeout40 ==
  /\ [][(state = boot_state /\ state' # boot_state /\ ~forced)
        => (/\ fn = "boot_tick" /\ ticks = 40
            /\ state' = idle_state
            /\ seconds >= BOOT_TIMEOUT)]_vars
  /\ [](state = boot_state /\ ~forced
        => (ticks <= 40 /\ (ticks = 40 => fn = "boot_tick")))

\* the 200th boot tick has seen the timeout and is about to enter Idle
C7_Witness ==
  /\ fn = "boot_tick" /\ pc = "sc_assign" /\ state = boot_state
  /\ ~forced /\ ticks = BootTicks /\ seconds = BOOT_TIMEOUT

\* C8: a host-ready rising edge handled in Booting leaves the state Booting
\* and sets elapsed_seconds to BOOT_TIMEOUT, and a boot tick begun after it
\* finds the timeout reached when it tests elapsed_seconds.
C8_HostReadyForcesIdle ==
  /\ [][(/\ ipc = "host" /\ ipc' = "btn"
         /\ state = boot_state
         /\ RPI_IN \in pin_change /\ RPI_IN \in pins)
        => (state' = boot_state /\ seconds' = BOOT_TIMEOUT)]_vars
  /\ [](fn = "boot_tick" /\ pc = "check" /\ tickSince
        => seconds >= BOOT_TIMEOUT)

\* C9: state leaves ShuttingDown only in the 80th shutdown tick, which
\* enters PoweredOff; no 81st tick begins; when that entry action completes
\* with the state still PoweredOff, power is off and the request deasserted.
C9_ShutdownTimeout ==
  /\ [][(state = shutdown_state /\ state' # shutdown_state)
        => (/\ fn = "shutdown_tick" /\ ticks = ShutdownTicks
            /\ state' = poweroff_state
            /\ seconds >= SHUTDOWN_TIMEOUT)]_vars
  /\ [](state = shutdown_state
        => (/\ ticks <= ShutdownTicks
            /\ (ticks = ShutdownTicks => fn = "shutdown_tick")))
  /\ [][(/\ fn = "shutdown_tick" /\ fn' = "loop"
         /\ state = poweroff_state)
        => (RPI_PWR \in portb' /\ RPI_OUT \notin portb')]_vars

\* the 80th shutdown tick has entered PoweredOff and returned
C9_Witness ==
  /\ fn = "loop" /\ pc = "dispatch" /\ state = poweroff_state
  /\ seconds = SHUTDOWN_TIMEOUT /\ timer = 0
  /\ ~PowerOn /\ ~RequestAsserted

\* the output levels of the PoweredOff state that setup establishes
PowerOffLevels == {RPI_PWR}

\* C10: whenever the main line is outside an entry action and the state is
\* PoweredOff, after setup and after every round trip through Booting, Idle
\* and ShuttingDown, the three outputs are at the levels setup established.
C10_RoundTrip ==
  (state = poweroff_state /\ fn = "loop") => portb = PowerOffLevels

\* the main line sleeps in PoweredOff after a completed shutdown period
C10_Witness ==
  /\ state = poweroff_state /\ fn = "loop" /\ pc = "wake" /\ asleep
  /\ seconds = SHUTDOWN_TIMEOUT

\* the power-enable and shutdown-request levels each state's entry action
\* establishes
OutputsOf(s) ==
  CASE s = poweroff_state -> ~PowerOn /\ ~RequestAsserted
    [] s \in {boot_state, idle_state} -> PowerOn /\ ~RequestAsserted
    [] s = shutdown_state -> PowerOn /\ RequestAsserted
    [] OTHER -> TRUE

\* C11: whenever no entry action is partway through executing, the
\* power-enable and shutdown-request outputs are those of the state.
C11_OutputsFollowState ==
  (ipc = "none" /\ pc \notin {"sc_switch", "sc_entry"} /\ fn # "setup")
    => OutputsOf(state)

\* C13: the main line is halted in sleep_mode() only while the state is Idle
\* or PoweredOff.
C13_SleepOnlyWhenIdle ==
  asleep => state \in {idle_state, poweroff_state}

\* the steps of the main line and of the interrupt handler
MainLine ==
  \/ SetupInit \/ SetupSei \/ SC_Assign \/ SC_Switch \/ SC_Entry
  \/ Loop \/ Sleep \/ Wake \/ Toggle \/ Delay \/ Load \/ Store \/ Check

Handler == ISR_Enter \/ ISR_Read \/ ISR_Snap \/ ISR_Host \/ ISR_Btn

\* the CPU keeps executing.  The handler runs whenever an interrupt is
\* pending or being served.  The AVR executes one instruction of the main
\* line after every return from the handler, so the main line steps again
\* and again unless it stays halted (strong fairness: interrupts alone do
\* not starve it).  The input lines need never change.
FairSpec == Init /\ [][Next]_vars /\ SF_vars(MainLine) /\ WF_vars(Handler)

\* C12: whenever the state is Booting the system eventually reaches Idle,
\* and whenever it is ShuttingDown it eventually reaches PoweredOff, with
\* no further change of the input lines required.
C12_TimedStatesEnd ==
  /\ (state = boot_state) ~> (state = idle_state)
  /\ (state = shutdown_state) ~> (state = poweroff_state)

\* ---------------------------------------------- state_change on its own
\* state_change called without preemption, on every argument, from any
\* contents of the counters and of the outputs
SCTimers == {0, 200, 500, 800}
SCSeconds == {0, 1, 39, 40}

SCInit ==
  /\ state \in state_t
  /\ timer \in SCTimers
  /\ seconds \in SCSeconds
  /\ portb \in SUBSET {LED, RPI_PWR, RPI_OUT}
  /\ pinb = {}
  /\ pins = {}
  /\ pcif = FALSE
  /\ ie = FALSE
  /\ fn = "state_change"
  /\ pc = "call"
  /\ new_state = unknown_state
  /\ idx = 0
  /\ reg = 0
  /\ asleep = FALSE
  /\ ipc = "none"
  /\ pin_change = {}
  /\ ticks = 0
  /\ forced = FALSE
  /\ tickSince = FALSE

SCCall ==
  /\ fn = "state_change"
  /\ \E s \in state_t :
       /\ new_state' = s
       /\ StateChange(s)
  /\ pc' = "ret"
  /\ UNCHANGED <<pinb, pins, pcif, ie, fn, idx, reg, asleep, isrv>>

SCNext == SCCall

SCSpec == SCInit /\ [][SCNext]_vars

\* C14: state_change(new_state), run without preemption, sets the state and
\* performs exactly the entry action of new_state; a second call with the
\* same argument changes nothing more.
C14_EntryActions ==
  /\ [][pc' = "ret" =>
         /\ state' = new_state'
         /\ CASE new_state' = boot_state ->
                   /\ portb' = portb \ {LED, RPI_PWR, RPI_OUT}
                   /\ timer' = 0 /\ seconds' = 0
              [] new_state' = shutdown_state ->
                   /\ portb' = (portb \cup {RPI_OUT}) \ {LED}
                   /\ timer' = 0 /\ seconds' = 0
              [] new_state' = poweroff_state ->
                   /\ portb' = (portb \cup {RPI_PWR}) \ {LED, RPI_OUT}
                   /\ timer' = timer /\ seconds' = seconds
              [] new_state' = idle_state ->
                   /\ portb' = portb \cup {LED}
                   /\ timer' = timer /\ seconds' = seconds
              [] OTHER ->
                   /\ portb' = portb
                   /\ timer' = timer /\ seconds' = seconds]_vars
  /\ [][(pc = "ret" /\ pc' = "ret" /\ new_state' = new_state)
        => UNCHANGED <<state, portb, timer, seconds>>]_vars

\* state_change(shutdown_state) has returned: request asserted, LED off,
\* counters zero, the power-enable line still high as it was before
C14_Witness ==
  /\ fn = "state_change" /\ pc = "ret" /\ new_state = shutdown_state
  /\ state = shutdown_state /\ portb = {RPI_PWR, RPI_OUT}
  /\ timer = 0 /\ seconds = 0

\* C15: every entry into Booting or ShuttingDown sets both counters to zero,
\* and the first tick after the entry finds them zero (elapsed_seconds may
\* be BOOT_TIMEOUT instead when the handler has forced the boot timeout
\* since the entry).
C15_ClockResetOnEntry ==
  /\ [][(state' # state /\ state' \in {boot_state, shutdown_state})
        => (timer' = 0 /\ seconds' = 0)]_vars
  /\ []((fn \in {"boot_tick", "shutdown_tick"} /\ pc = "delay" /\ ticks = 1)
        => (/\ timer = 0
            /\ (seconds = 0 \/ (forced /\ seconds = BOOT_TIMEOUT))))

\* the first shutdown tick, after a boot that left elapsed_seconds at its
\* timeout, is about to advance the clock from zero
C15_Witness ==
  /\ fn = "shutdown_tick" /\ pc = "delay" /\ ticks = 1
  /\ state = shutdown_state /\ timer = 0 /\ seconds = 0

\* C16: outside the body of delay() subsecond_ms is in 0..999;
\* elapsed_seconds never exceeds BOOT_TIMEOUT + 1; and elapsed_seconds never
\* decreases while the state stays the same (the statements of an entry
\* action, which reset the clock, set aside).
C16_ClockBounds ==
  /\ [](pc \notin {"delay", "load", "store"} => timer \in 0..999)
  /\ [](seconds <= BOOT_TIMEOUT + 1)
  /\ [][(state' = state /\ pc # "sc_entry") => seconds' >= seconds]_vars

\* C17: a host-ready rising edge handled in a state other than Booting
\* changes neither the state nor the counters nor any output; when the same
\* invocation of the handler then leaves PoweredOff on a button press, the
\* boot begins with both counters zero and no timeout forced.
C17_HostReadyIgnored ==
  /\ [][(/\ ipc = "host" /\ ipc' = "btn"
         /\ state # boot_state
         /\ RPI_IN \in pin_change /\ RPI_IN \in pins)
        => UNCHANGED <<state, timer, seconds, portb, forced>>]_vars
  /\ [][(/\ ipc = "btn" /\ ipc' = "none"
         /\ state = poweroff_state /\ state' = boot_state
         /\ RPI_IN \in pin_change)
        => (timer' = 0 /\ seconds' = 0 /\ ~forced')]_vars

\* the handler has passed its host-ready test on a rising edge during a
\* shutdown tick and the shutdown clock is as it was
C17_Witness ==
  /\ ipc = "btn" /\ state = shutdown_state /\ fn = "shutdown_tick"
  /\ RPI_IN \in pin_change /\ RPI_IN \in pins /\ RPI_IN \in pinb
  /\ ticks = 3 /\ pc = "check" /\ seconds = 1 /\ timer = 500

\* C18: one sample of the input lines serves a whole invocation of the
\* handler: the snapshot it stores is the sample it compared with the old
\* snapshot, and the levels it tests are the levels it stored.
C18_SingleSample ==
  /\ [][(ipc = "snap" /\ ipc' = "host")
        => pinb' = Xor(pin_change, pinb)]_vars
  /\ [][(ipc \in {"host", "btn"} /\ ipc' # ipc) => pins = pinb]_vars

\* the transitions of the cycle PoweredOff, Booting, Idle, ShuttingDown
Cycle ==
  { <<poweroff_state, boot_state>>, <<boot_state, idle_state>>,
    <<idle_state, shutdown_state>>, <<shutdown_state, poweroff_state>> }

\* C19: after initialization every change of the state is a step of the
\* cycle PoweredOff -> Booting -> Idle -> ShuttingDown -> PoweredOff.
C19_StateCycle ==
  [][(state' # state /\ state # unknown_state)
     => <<state, state'>> \in Cycle]_vars

\* the dispatcher is about to sleep in PoweredOff after a whole cycle
C19_Witness ==
  /\ state = poweroff_state /\ fn = "loop" /\ pc = "sleep"
  /\ seconds = SHUTDOWN_TIMEOUT /\ ~PowerOn

\* C20: after initialization the host power is switched off only by the
\* timeout of shutdown_tick, in the PoweredOff state it has just entered,
\* never while the state is Booting or Idle.
C20_PowerCutOnlyAfterShutdown ==
  [][(fn # "setup" /\ PowerOn /\ ~PowerOn')
     => (fn = "shutdown_tick" /\ state = poweroff_state)]_vars
====
